---- MODULE Spec2Model ----
(***************************************************************************)
(* Model of llama_toolchain/cli/api/build.py: the dependency merge         *)
(* (get_dependencies), the --dependencies parser (parse_dependencies) and  *)
(* the build command (ApiBuild._run_api_build_command).                    *)
(*                                                                         *)
(* Python strings that the code splits, strips or rewrites are sequences   *)
(* of one-character strings.  ProviderSpec objects live in a heap indexed  *)
(* by reference, so that two names for one object share its package list.  *)
(***************************************************************************)
EXTENDS Naturals, Sequences, FiniteSets, TLC

VARIABLES
    heap,           \* reference -> ProviderSpec object held by the registry
    apiIsStr,       \* whether an Api member compares equal to its string value
    provider,       \* get_dependencies: the root spec (a reference, 0 before a call)
    depValues,      \* get_dependencies: dependencies.values(), a sequence of references
    dependencies,   \* get_dependencies: the outcome of the last call
    calls,          \* number of get_dependencies calls made so far
    depString,      \* parse_dependencies: the input string
    provider_deps,  \* parse_dependencies: the outcome of the last call
    args,           \* the argparse.Namespace of the build command
    pc,             \* position of the build command
    name,           \* resolved build name
    package_name,   \* derived package name
    dirs,           \* directories created so far
    files,          \* package file path -> state of the file on disk
    stub_config,    \* the providers mapping handed to PackageConfig
    invocations,    \* argument lists run_with_pty was called with
    script,         \* state of the external build script
    return_code,    \* exit code of the script
    printed,        \* messages printed by the command
    outcome         \* how the command ended

vars == <<heap, apiIsStr, provider, depValues, dependencies, calls, depString,
          provider_deps, args, pc, name, package_name, dirs, files,
          stub_config, invocations, script, return_code, printed, outcome>>

mergeVars == <<provider, depValues, dependencies, calls>>
parseVars == <<depString, provider_deps>>
buildVars == <<args, pc, name, package_name, dirs, files, stub_config,
               invocations, script, return_code, printed, outcome>>

----------------------------------------------------------------------------
(* Bounds *)

MaxDeps == 2
MaxCalls == 2
MaxEntries == 3
MaxBuildEntries == 2

----------------------------------------------------------------------------
(* Python values *)

None == "None"

\* Python truthiness of an Optional[str]
Truthy(x) == x # None /\ x # ""

\* str.split(sep) for a one-character separator
RECURSIVE Split(_, _)
Split(s, sep) ==
    IF \A i \in 1..Len(s) : s[i] # sep
    THEN <<s>>
    ELSE LET k == CHOOSE i \in 1..Len(s) :
                    s[i] = sep /\ \A j \in 1..(i - 1) : s[j] # sep
         IN  <<SubSeq(s, 1, k - 1)>> \o Split(SubSeq(s, k + 1, Len(s)), sep)

\* str.strip(): leading and trailing whitespace removed
RECURSIVE Strip(_)
Strip(s) ==
    IF s = <<>> THEN s
    ELSE IF Head(s) = " " THEN Strip(Tail(s))
    ELSE IF s[Len(s)] = " " THEN Strip(SubSeq(s, 1, Len(s) - 1))
    ELSE s

\* sep.join(parts)
RECURSIVE Join(_, _)
Join(parts, sep) ==
    IF parts = <<>> THEN <<>>
    ELSE IF Len(parts) = 1 THEN parts[1]
    ELSE parts[1] \o <<sep>> \o Join(Tail(parts), sep)

RECURSIVE Concat(_)
Concat(ss) == IF ss = <<>> THEN <<>> ELSE Head(ss) \o Concat(Tail(ss))

----------------------------------------------------------------------------
(* The provider registry: api_providers() *)

Refs == {1, 2, 3}

ApiValues == {<<"a">>, <<"b">>}

\* api value -> provider id -> reference of the registered ProviderSpec
all_providers ==
    [api \in ApiValues |->
        IF api = <<"a">>
        THEN (<<"p">> :> 1) @@ (<<"n", ":", ":", "q">> :> 2)
        ELSE (<<"q">> :> 3)]

\* the provider id a registered spec was registered under
provider_id(r) ==
    CASE r = 1 -> <<"p">>
      [] r = 2 -> <<"n", ":", ":", "q">>
      [] r = 3 -> <<"q">>

Images == {None, "", "img"}

\* package lists a spec may be loaded with: its own package and a shared one
PkgChoices(r) ==
    {<<>>, <<CASE r = 1 -> <<"p", "1">> [] r = 2 -> <<"p", "2">>
               [] r = 3 -> <<"p", "3">>, <<"c">> >>}

\* ProviderSpec: InlineProviderSpec carries pip_packages and docker_image;
\* an adapter-backed spec carries adapter.pip_packages (kept in pip_packages
\* here) or no adapter at all (kind "remote")
ProviderSpec(r) ==
    {[kind |-> "inline", pip_packages |-> p, docker_image |-> i] :
        p \in PkgChoices(r), i \in Images}
    \cup {[kind |-> "adapter", pip_packages |-> p, docker_image |-> None] :
        p \in PkgChoices(r)}
    \cup {[kind |-> "remote", pip_packages |-> <<>>, docker_image |-> None]}

Heaps == {h \in [Refs -> UNION {ProviderSpec(r) : r \in Refs}] :
            \A r \in Refs : h[r] \in ProviderSpec(r)}

----------------------------------------------------------------------------
(* get_dependencies *)

\* _deps: the list object and image of a spec.  The list is identified by
\* the spec that owns it; 0 is a list freshly created by the call.
_deps(h, r) ==
    IF h[r].kind = "inline"
    THEN [list |-> r, docker_image |-> h[r].docker_image]
    ELSE IF h[r].kind = "adapter"
         THEN [list |-> r, docker_image |-> None]
         ELSE [list |-> 0, docker_image |-> None]

\* contents of a list object; a fresh list of a dependency is empty, the
\* fresh list of the root is kept in st.local
ListOf(st, l, isRoot) ==
    IF l = 0 THEN (IF isRoot THEN st.local ELSE <<>>)
    ELSE st.heap[l].pip_packages

\* pip_packages.extend(items) on the list object l
Extend(st, l, items) ==
    IF l = 0 THEN [st EXCEPT !.local = @ \o items]
    ELSE [st EXCEPT !.heap[l].pip_packages = @ \o items]

\* variant: only the first dependency is checked for a second image
RECURSIVE DepLoopFirstOnly(_, _, _, _, _)
DepLoopFirstOnly(st, list, docker_image, deps, i) ==
    IF i > Len(deps)
    THEN [status |-> "ok", heap |-> st.heap,
          pip_packages |-> ListOf(st, list, TRUE),
          docker_image |-> docker_image]
    ELSE LET d == _deps(st.heap, deps[i])
         IN  IF i = 1 /\ Truthy(docker_image) /\ Truthy(d.docker_image)
             THEN [status |-> "ValueError", heap |-> st.heap,
                   pip_packages |-> <<>>, docker_image |-> None]
             ELSE DepLoopFirstOnly(Extend(st, list, ListOf(st, d.list, FALSE)),
                                   list, docker_image, deps, i + 1)

\* the for loop of get_dependencies from the i-th dependency on
RECURSIVE DepLoop(_, _, _, _, _)
DepLoop(st, list, docker_image, deps, i) ==
    IF i > Len(deps)
    THEN [status |-> "ok", heap |-> st.heap,
          pip_packages |-> ListOf(st, list, TRUE),
          docker_image |-> docker_image]
    ELSE LET d == _deps(st.heap, deps[i])
         IN  IF Truthy(docker_image) /\ Truthy(d.docker_image)
             THEN [status |-> "ValueError", heap |-> st.heap,
                   pip_packages |-> <<>>, docker_image |-> None]
             ELSE DepLoop(Extend(st, list, ListOf(st, d.list, FALSE)),
                          list, docker_image, deps, i + 1)

get_dependencies(h, root, deps) ==
    LET r == _deps(h, root)
    IN  DepLoop([heap |-> h, local |-> <<>>], r.list, r.docker_image, deps, 1)

NoResult == [status |-> "none", pip_packages |-> <<>>, docker_image |-> None]

Result(res) == [status |-> res.status, pip_packages |-> res.pip_packages,
                docker_image |-> res.docker_image]

RECURSIVE SeqsUpTo(_, _)
SeqsUpTo(S, n) ==
    IF n = 0 THEN {<<>>}
    ELSE LET shorter == SeqsUpTo(S, n - 1)
         IN  shorter \cup {Append(s, x) : s \in shorter, x \in S}

\* a call of get_dependencies; a later call is made with the same
\* registry-held specs as the first
GetDependencies ==
    /\ calls < MaxCalls
    /\ \E root \in Refs, deps \in SeqsUpTo(Refs, MaxDeps) :
        /\ calls > 0 => (root = provider /\ deps = depValues)
        /\ LET res == get_dependencies(heap, root, deps)
           IN  /\ heap' = res.heap
               /\ dependencies' = Result(res)
        /\ provider' = root
        /\ depValues' = deps
    /\ calls' = calls + 1
    /\ UNCHANGED <<apiIsStr, parseVars, buildVars>>

----------------------------------------------------------------------------
(* parse_dependencies *)

\* an insertion-ordered dict is a sequence of [key, value] entries
Values(d) == [i \in 1..Len(d) |-> d[i].value]
HasKey(d, k) == \E i \in 1..Len(d) : d[i].key = k

\* variant: a new key is put in front
DictSetFront(d, k, v) ==
    IF HasKey(d, k)
    THEN [i \in 1..Len(d) |-> IF d[i].key = k THEN [key |-> k, value |-> v]
                                              ELSE d[i]]
    ELSE <<[key |-> k, value |-> v]>> \o d

\* d[k] = v: a key already present keeps its position and takes the value
DictSet(d, k, v) ==
    IF HasKey(d, k)
    THEN [i \in 1..Len(d) |-> IF d[i].key = k THEN [key |-> k, value |-> v]
                                              ELSE d[i]]
    ELSE Append(d, [key |-> k, value |-> v])

\* the for loop of parse_dependencies from the i-th entry on
RECURSIVE ParseLoop(_, _, _)
ParseLoop(entries, i, deps) ==
    IF i > Len(entries)
    THEN [status |-> "ok", deps |-> deps]
    ELSE LET dep == Strip(entries[i])
             parts == Split(dep, "=")
         IN  IF dep = <<>>
             THEN ParseLoop(entries, i + 1, deps)
             ELSE IF Len(parts) # 2
             THEN [status |-> "ValueError", deps |-> <<>>]  \* unpacking fails
             ELSE IF parts[1] \notin ApiValues
             THEN [status |-> "ValueError", deps |-> <<>>]  \* Api(api_str) fails
             ELSE IF Strip(parts[2]) \notin DOMAIN all_providers[parts[1]]
             THEN [status |-> "parser.error", deps |-> <<>>]
             ELSE ParseLoop(entries, i + 1,
                            DictSet(deps, parts[1],
                                    all_providers[parts[1]][Strip(parts[2])]))

parse_dependencies(s) == ParseLoop(Split(s, ","), 1, <<>>)

\* entries a --dependencies string is put together from
Entries ==
    { <<"a", "=", "p">>,
      <<" ", "b", "=", "q", " ">>,
      <<"a", "=", " ", "n", ":", ":", "q">>,
      <<>>,
      <<" ">>,
      <<"z", "=", "p">>,
      <<"a", "=", "z">>,
      <<"b", "=", "p">>,
      <<"a">>,
      <<"a", "=", "p", "=", "q">>,
      <<"a", " ", "=", "p">> }

DepStrings(n) == {Join(es, ",") : es \in SeqsUpTo(Entries, n)}

ParseDependencies ==
    /\ provider_deps.status = "none"
    /\ provider_deps' = parse_dependencies(depString)
    /\ UNCHANGED <<heap, apiIsStr, depString, mergeVars, buildVars>>

----------------------------------------------------------------------------
(* ApiBuild._run_api_build_command *)

BUILDS_BASE_DIR == <<"builds">>

\* str.replace("::", "-")
RECURSIVE Replace(_)
Replace(s) ==
    IF Len(s) < 2 THEN s
    ELSE IF s[1] = ":" /\ s[2] = ":"
         THEN <<"-">> \o Replace(SubSeq(s, 3, Len(s)))
         ELSE <<s[1]>> \o Replace(Tail(s))

\* values random_string() may return
RandomNames ==
    { <<"r", "a", "n", "d", "o", "m", "0", "1">>,
      <<"r", "a", "n", "d", "o", "m", "0", "2">> }

BuildTypes == {"container", "conda_env"}

\* values of --provider, --name and --dependencies tried
ProviderArgs == {<<"p">>, <<"n", ":", ":", "q">>, <<"q">>, <<"z">>}
NameArgs == {<<>>, <<"n">>}
BuildEntries ==
    { <<"a", "=", "p">>,
      <<" ", "b", "=", "q", " ">>,
      <<>>,
      <<"z", "=", "p">>,
      <<"a", "=", "z">>,
      <<"a">> }
BuildDepStrings == {Join(es, ",") : es \in SeqsUpTo(BuildEntries, MaxBuildEntries)}

Namespace ==
    [api : ApiValues, provider : ProviderArgs, dependencies : BuildDepStrings,
     name : NameArgs, type : BuildTypes]

package_file == <<args.api, package_name \o <<".", "y", "a", "m", "l">> >>

Fail(what) ==
    /\ outcome' = what
    /\ pc' = "done"

\* lines 141-152: base directory, registry lookup of --provider; args.api
\* is one of the argparse choices, so Api(args.api) and the assert succeed
LookupProvider ==
    /\ pc = "start"
    /\ dirs' = dirs \cup {BUILDS_BASE_DIR}
    /\ IF args.provider \notin DOMAIN all_providers[args.api]
       THEN /\ Fail("parser.error:provider")
            /\ printed' = Append(printed, "usage")
       ELSE /\ pc' = "name"
            /\ UNCHANGED <<outcome, printed>>
    /\ UNCHANGED <<heap, apiIsStr, mergeVars, parseVars, args, name,
                   package_name, files, stub_config, invocations, script,
                   return_code>>

\* variant: the package file is opened as soon as its name is known
ResolveNameAndOpen ==
    /\ pc = "name"
    /\ \E n \in (IF args.name # <<>> THEN {args.name} ELSE RandomNames) :
        /\ name' = n
        /\ package_name' =
             Replace((IF args.type = "container"
                      THEN <<"i", "m", "a", "g", "e", "-">>
                      ELSE <<"e", "n", "v", "-">>)
                     \o args.provider \o <<"-">> \o n)
        /\ files' = (<<args.api, package_name' \o <<".", "y", "a", "m", "l">> >>
                        :> [state |-> "open", content |-> None]) @@ files
    /\ dirs' = dirs \cup {<<BUILDS_BASE_DIR, args.api>>}
    /\ pc' = "parse"
    /\ UNCHANGED <<heap, apiIsStr, mergeVars, parseVars, args,
                   stub_config, invocations, script, return_code, printed,
                   outcome>>

\* lines 154-162: name, package name, build directory
ResolveName ==
    /\ pc = "name"
    /\ \E n \in (IF args.name # <<>> THEN {args.name} ELSE RandomNames) :
        /\ name' = n
        /\ package_name' =
             Replace((IF args.type = "container"
                      THEN <<"i", "m", "a", "g", "e", "-">>
                      ELSE <<"e", "n", "v", "-">>)
                     \o args.provider \o <<"-">> \o n)
    /\ dirs' = dirs \cup {<<BUILDS_BASE_DIR, args.api>>}
    /\ pc' = "parse"
    /\ UNCHANGED <<heap, apiIsStr, mergeVars, parseVars, args, files,
                   stub_config, invocations, script, return_code, printed,
                   outcome>>

\* line 164: provider_deps = parse_dependencies(args.dependencies or "", ...);
\* an absent --dependencies is the empty string
ParseStep ==
    /\ pc = "parse"
    /\ depString' = args.dependencies
    /\ LET res == parse_dependencies(args.dependencies)
       IN  /\ provider_deps' = res
           /\ IF res.status = "ok"
              THEN /\ pc' = "merge"
                   /\ UNCHANGED <<outcome, printed>>
              ELSE IF res.status = "parser.error"
              THEN /\ Fail("parser.error:dependencies")
                   /\ printed' = Append(printed, "usage")
              ELSE /\ Fail("ValueError:dependencies")
                   /\ UNCHANGED printed
    /\ UNCHANGED <<heap, apiIsStr, mergeVars, args, name, package_name, dirs,
                   files, stub_config, invocations, script, return_code>>

\* line 165: dependencies = get_dependencies(providers[args.provider], ...)
MergeStep ==
    /\ pc = "merge"
    /\ LET root == all_providers[args.api][args.provider]
           res == get_dependencies(heap, root, Values(provider_deps.deps))
       IN  /\ provider' = root
           /\ depValues' = Values(provider_deps.deps)
           /\ heap' = res.heap
           /\ dependencies' = Result(res)
           /\ calls' = calls + 1
           /\ IF res.status = "ok"
              THEN pc' = "open" /\ UNCHANGED outcome
              ELSE Fail("ValueError:image")
    /\ UNCHANGED <<apiIsStr, parseVars, args, name, package_name, dirs, files,
                   stub_config, invocations, script, return_code, printed>>

\* key of a dict entry: the string api.value, or an Api member, which is
\* the same key as its value only when Api members compare equal to strings
StrKey(api) == [t |-> "str", v |-> api]
ApiKey(api) == IF apiIsStr THEN StrKey(api) ELSE [t |-> "Api", v |-> api]

RECURSIVE Update(_, _)
Update(d, items) ==
    IF items = <<>> THEN d
    ELSE Update(DictSet(d, Head(items).key, Head(items).value), Tail(items))

\* lines 169-174
StubConfig ==
    Update(<< [key |-> StrKey(args.api),
               value |-> [provider_id |-> [t |-> "id", v |-> args.provider]]] >>,
           [i \in 1..Len(provider_deps.deps) |->
               [key |-> ApiKey(provider_deps.deps[i].key),
                value |-> [provider_id |->
                             [t |-> "spec", v |-> provider_deps.deps[i].value]]]])

\* line 175: open(package_file, "w") creates or truncates the file, or fails
OpenPackageFile ==
    /\ pc = "open"
    /\ stub_config' = StubConfig
    /\ \/ /\ files' = (package_file :> [state |-> "open", content |-> None])
                      @@ files
          /\ pc' = "write"
          /\ UNCHANGED outcome
       \/ /\ Fail("OSError")
          /\ UNCHANGED files
    /\ UNCHANGED <<heap, apiIsStr, mergeVars, parseVars, args, name,
                   package_name, dirs, invocations, script, return_code,
                   printed>>

\* lines 176-187: the PackageConfig is dumped and the file closed
WritePackageFile ==
    /\ pc = "write"
    /\ files' = [files EXCEPT ![package_file] =
                   [state |-> "closed",
                    content |->
                      [package_name |-> package_name,
                       docker_image |-> IF args.type = "container"
                                        THEN package_name ELSE None,
                       conda_env |-> IF args.type = "conda_env"
                                     THEN package_name ELSE None,
                       providers |-> stub_config]]]
    /\ pc' = "run"
    /\ UNCHANGED <<heap, apiIsStr, mergeVars, parseVars, args, name,
                   package_name, dirs, stub_config, invocations, script,
                   return_code, printed, outcome>>

\* variant: the script is started detached and taken to have succeeded
RunWithPtyDetached ==
    /\ pc = "run"
    /\ invocations' = Append(invocations, << <<"build_container.sh">>,
                                              args.api, package_name >>)
    /\ script' = "running"
    /\ return_code' = 0
    /\ pc' = "report"
    /\ UNCHANGED <<heap, apiIsStr, mergeVars, parseVars, args, name,
                   package_name, dirs, files, stub_config, printed, outcome>>

\* lines 189-211: run_with_pty(args) starts the script and blocks
RunWithPty ==
    /\ pc = "run"
    /\ invocations' =
         Append(invocations,
                IF args.type = "container"
                THEN << <<"build_container.sh">>, args.api, package_name,
                        IF Truthy(dependencies.docker_image)
                        THEN <<dependencies.docker_image>>
                        ELSE <<"python:3.10-slim">>,
                        Join(dependencies.pip_packages, " ") >>
                ELSE << <<"build_conda_env.sh">>, args.api, package_name,
                        Join(dependencies.pip_packages, " ") >>)
    /\ script' = "running"
    /\ pc' = "wait"
    /\ UNCHANGED <<heap, apiIsStr, mergeVars, parseVars, args, name,
                   package_name, dirs, files, stub_config, return_code,
                   printed, outcome>>

\* the external script finishes and run_with_pty returns its exit code
ScriptExit ==
    /\ pc = "wait"
    /\ script = "running"
    /\ \E code \in {0, 1} : return_code' = code
    /\ script' = "exited"
    /\ pc' = "report"
    /\ UNCHANGED <<heap, apiIsStr, mergeVars, parseVars, args, name,
                   package_name, dirs, files, stub_config, invocations,
                   printed, outcome>>

\* lines 212-218: the assert prints the failure message and raises; the
\* success message reads target_name, which is never assigned
Report ==
    /\ pc = "report"
    /\ IF return_code # 0
       THEN /\ printed' = Append(printed, "Failed to build target")
            /\ Fail("AssertionError")
       ELSE /\ Fail("NameError")
            /\ UNCHANGED printed
    /\ UNCHANGED <<heap, apiIsStr, mergeVars, parseVars, args, name,
                   package_name, dirs, files, stub_config, invocations,
                   script, return_code>>

----------------------------------------------------------------------------
(* Idle values of the parts a specification does not exercise *)

NoArgs == [api |-> <<>>, provider |-> <<>>, dependencies |-> <<>>,
           name |-> <<>>, type |-> "container"]

MergeIdle ==
    /\ provider = 0
    /\ depValues = <<>>
    /\ dependencies = NoResult
    /\ calls = 0

ParseIdle ==
    /\ depString = <<>>
    /\ provider_deps = [status |-> "none", deps |-> <<>>]

BuildIdle ==
    /\ args = NoArgs
    /\ pc = "idle"
    /\ name = <<>>
    /\ package_name = <<>>
    /\ dirs = {}
    /\ files = <<>>
    /\ stub_config = <<>>
    /\ invocations = <<>>
    /\ script = "not_started"
    /\ return_code = None
    /\ printed = <<>>
    /\ outcome = "none"

InitMerge ==
    /\ heap \in Heaps
    /\ apiIsStr = FALSE
    /\ MergeIdle
    /\ ParseIdle
    /\ BuildIdle

NextMerge == GetDependencies

SpecMerge == InitMerge /\ [][NextMerge]_vars

InitParse ==
    /\ heap \in {h \in Heaps : \A r \in Refs : h[r].kind = "remote"}
    /\ apiIsStr = FALSE
    /\ MergeIdle
    /\ depString \in DepStrings(MaxEntries)
    /\ provider_deps = [status |-> "none", deps |-> <<>>]
    /\ BuildIdle

NextParse == ParseDependencies

SpecParse == InitParse /\ [][NextParse]_vars

\* registries the build command is run against: inline providers with
\* packages, each with or without a container image
BuildHeaps ==
    {h \in Heaps : \A r \in Refs : /\ h[r].kind = "inline"
                                  /\ h[r].pip_packages # <<>>
                                  /\ h[r].docker_image # ""}

Init ==
    /\ heap \in BuildHeaps
    /\ apiIsStr \in BOOLEAN
    /\ MergeIdle
    /\ ParseIdle
    /\ args \in Namespace
    /\ pc = "start"
    /\ name = <<>>
    /\ package_name = <<>>
    /\ dirs = {}
    /\ files = <<>>
    /\ stub_config = <<>>
    /\ invocations = <<>>
    /\ script = "not_started"
    /\ return_code = None
    /\ printed = <<>>
    /\ outcome = "none"

Next ==
    \/ LookupProvider
    \/ ResolveName
    \/ ParseStep
    \/ MergeStep
    \/ OpenPackageFile
    \/ WritePackageFile
    \/ RunWithPty
    \/ ScriptExit
    \/ Report

Spec == Init /\ [][Next]_vars

----------------------------------------------------------------------------
(* Properties of get_dependencies, checked under SpecMerge *)

DeclaresImage(h, r) == h[r].kind = "inline" /\ Truthy(h[r].docker_image)

\* what the merge is specified to extract from one spec
Extracted(h, r) ==
    IF h[r].kind = "remote" THEN <<>> ELSE h[r].pip_packages

\* C1: when the root declares a non-empty image and some auxiliary, at any
\* position among any number of auxiliaries, declares one too, the call
\* raises the conflicting-image error and returns no Dependencies.
C1_ConflictingImageFails ==
    (/\ calls > 0
     /\ DeclaresImage(heap, provider)
     /\ \E i \in 1..Len(depValues) : DeclaresImage(heap, depValues[i]))
    => dependencies.status = "ValueError"

C1_Witness ==
    /\ calls > 0
    /\ Len(depValues) = 2
    /\ DeclaresImage(heap, provider)
    /\ ~DeclaresImage(heap, depValues[1])
    /\ DeclaresImage(heap, depValues[2])
    /\ depValues[2] # provider
    /\ dependencies.status = "ValueError"

\* C2: a merge that succeeds has no auxiliary declaring a container image;
\* only the root may declare one.
C2_OnlyRootDeclaresImage ==
    (calls > 0 /\ dependencies.status = "ok")
    => \A i \in 1..Len(depValues) : ~DeclaresImage(heap, depValues[i])

\* C3: a successful merge returns the root's extracted packages followed by
\* each auxiliary's extracted packages, in iteration order, duplicates kept.
C3_PackagesInOrder ==
    [][(calls' = calls + 1 /\ dependencies'.status = "ok")
       => dependencies'.pip_packages =
            Extracted(heap, provider')
            \o Concat([i \in 1..Len(depValues') |->
                          Extracted(heap, depValues'[i])])]_vars

\* C4: a call of get_dependencies, successful or failing, leaves every
\* ProviderSpec held by the registry unchanged.
C4_NoSideEffects == [][calls' = calls + 1 => heap' = heap]_vars

----------------------------------------------------------------------------
(* Properties of parse_dependencies, checked under SpecParse *)

\* the entries of the input that are not empty after trimming
RECURSIVE NonBlank(_)
NonBlank(es) ==
    IF es = <<>> THEN <<>>
    ELSE IF Strip(Head(es)) = <<>> THEN NonBlank(Tail(es))
    ELSE <<Strip(Head(es))>> \o NonBlank(Tail(es))

Listed(s) == NonBlank(Split(s, ","))

\* a valid api=provider pair: exactly one "=", a known API on the left, a
\* provider id registered for that API on the right after trimming
ValidEntry(e) ==
    /\ Cardinality({i \in 1..Len(e) : e[i] = "="}) = 1
    /\ LET k == CHOOSE i \in 1..Len(e) : e[i] = "="
           api == SubSeq(e, 1, k - 1)
           pid == Strip(SubSeq(e, k + 1, Len(e)))
       IN  api \in ApiValues /\ pid \in DOMAIN all_providers[api]

\* the [api, registry spec] pair a valid entry lists
PairOf(e) ==
    LET k == CHOOSE i \in 1..Len(e) : e[i] = "="
        api == SubSeq(e, 1, k - 1)
    IN  [key |-> api,
         value |-> all_providers[api][Strip(SubSeq(e, k + 1, Len(e)))]]

ListedPairs(s) == [i \in 1..Len(Listed(s)) |-> PairOf(Listed(s)[i])]

AllValid(s) == \A i \in 1..Len(Listed(s)) : ValidEntry(Listed(s)[i])

Parsed == provider_deps.status # "none"

\* C5 as stated: for an input whose non-blank entries are all valid pairs,
\* the mapping holds the listed pairs, one entry per pair, in listing order.
C5_ListedOrder ==
    (Parsed /\ AllValid(depString))
    => /\ provider_deps.status = "ok"
       /\ provider_deps.deps = ListedPairs(depString)

\* C5 amended: for such an input the mapping has one entry per listed API,
\* in the order of each API's first listing, mapped to the registry spec of
\* the provider of that API's last listing (so listing order when no API is
\* listed twice); blank entries are skipped and provider ids trimmed.
C5_FirstListingOrder ==
    (Parsed /\ AllValid(depString))
    => LET L == ListedPairs(depString)
           D == provider_deps.deps
           First(k) == CHOOSE i \in 1..Len(L) :
                          L[i].key = k /\ \A j \in 1..(i - 1) : L[j].key # k
           Last(k) == CHOOSE i \in 1..Len(L) :
                          L[i].key = k /\ \A j \in (i + 1)..Len(L) : L[j].key # k
       IN  /\ provider_deps.status = "ok"
           /\ {D[i].key : i \in 1..Len(D)} = {L[i].key : i \in 1..Len(L)}
           /\ \A i, j \in 1..Len(D) :
                 i < j => First(D[i].key) < First(D[j].key)
           /\ \A i \in 1..Len(D) : D[i].value = L[Last(D[i].key)].value

\* both APIs listed, the first of them again after the second with another
\* provider, with whitespace to trim
C5_Witness ==
    /\ Parsed
    /\ AllValid(depString)
    /\ Len(Listed(depString)) = 3
    /\ provider_deps.status = "ok"
    /\ Len(provider_deps.deps) = 2
    /\ provider_deps.deps[1].key = <<"a">>
    /\ provider_deps.deps[1].value # ListedPairs(depString)[1].value
    /\ \E i \in 1..Len(depString) : depString[i] = " "

\* C6: an input with an invalid entry ends in the usage error reported
\* through the parser, not in an unhandled exception, and returns no mapping.
C6_InvalidIsUsageError ==
    (Parsed /\ ~AllValid(depString)) => provider_deps.status = "parser.error"

----------------------------------------------------------------------------
(* Properties of the build command, checked under Spec *)

Done == pc = "done"

Written(f) == f \in DOMAIN files /\ files[f].state = "closed"

\* C7: a run that ends with an unknown root provider, an unknown auxiliary
\* API or provider, or a conflicting-image merge failure has written no
\* file and has never started the build script.
C7_AbortBeforeWrite ==
    (Done /\ outcome \in {"parser.error:provider", "parser.error:dependencies",
                          "ValueError:dependencies", "ValueError:image"})
    => /\ DOMAIN files = {}
       /\ invocations = <<>>
       /\ script = "not_started"

C7_Witness ==
    /\ Done
    /\ outcome = "ValueError:image"
    /\ <<BUILDS_BASE_DIR, args.api>> \in dirs
    /\ Len(provider_deps.deps) = 2
    /\ DOMAIN files = {}
    /\ invocations = <<>>

\* C8: the providers mapping written to the descriptor has, keyed by API
\* name, the root API with the chosen provider id and every auxiliary API
\* with that auxiliary's provider id, and nothing else.
C8_ProviderIdMapping ==
    Written(package_file)
    => LET P == files[package_file].content.providers
           D == provider_deps.deps
           Id(api) == IF api = args.api THEN args.provider
                      ELSE provider_id(D[CHOOSE i \in 1..Len(D) :
                                             D[i].key = api].value)
       IN  /\ \A i, j \in 1..Len(P) : P[i].key = P[j].key => i = j
           /\ {P[i].key : i \in 1..Len(P)} =
                 {StrKey(args.api)} \cup {StrKey(D[i].key) : i \in 1..Len(D)}
           /\ \A i \in 1..Len(P) :
                 P[i].value = [provider_id |-> [t |-> "id", v |-> Id(P[i].key.v)]]

\* C9: a run whose build script exits with code 0 ends by printing the
\* success message and returning.
C9_SuccessReported ==
    (Done /\ script = "exited" /\ return_code = 0)
    => /\ outcome = "returned"
       /\ \E i \in 1..Len(printed) : printed[i] = "built"

\* C10: the script is started at most once and only when the descriptor of
\* the run is written and closed; the build result is reported only when
\* the script has exited; a non-zero exit ends the run in failure with the
\* descriptor on disk and a single invocation.
C10_EffectOrdering ==
    /\ Len(invocations) <= 1
    /\ script # "not_started" <=> invocations # <<>>
    /\ invocations # <<>>
         => /\ Written(package_file)
            /\ files[package_file].content.package_name = package_name
    /\ (\/ outcome \in {"AssertionError", "NameError", "returned"}
        \/ \E i \in 1..Len(printed) : printed[i] # "usage")
         => script = "exited"
    /\ (Done /\ script = "exited" /\ return_code # 0)
         => /\ outcome = "AssertionError"
            /\ printed # <<>>
            /\ printed[Len(printed)] = "Failed to build target"
            /\ Written(package_file)
            /\ Len(invocations) = 1

C10_Witness ==
    /\ Done
    /\ script = "exited"
    /\ return_code = 1
    /\ outcome = "AssertionError"
    /\ Len(invocations) = 1
    /\ Written(package_file)

====
